---- MODULE Spec2Model ----
(***************************************************************************)
(* Model of src/main.py, class ImageScraperApp: the scan / selection /     *)
(* save / clear handlers of the web image collector.                       *)
(*                                                                         *)
(* Strings (URLs, paths, file names) are sequences of characters, so that  *)
(* strip, basename, splitext and the f-string of _unique_filename are      *)
(* computed as Python computes them.  Every Tk callback runs to completion *)
(* on the single UI thread, so each handler is one action.  The texts of   *)
(* the two entry widgets (url_var, save_path_var) are read once by the     *)
(* handler that uses them and are its inputs.                              *)
(***************************************************************************)
EXTENDS Integers, Sequences, FiniteSets, TLC

\* Upper bound on the number of <img> tags of a page.
MaxTags == 2
\* Upper bound on the number of names in the save directory.
MaxFiles == 3
\* Upper bound on the number of _unique_filename calls on one set.
MaxCalls == 2

VARIABLES
    images,         \* self.images: list of {url, selected_var, filename}
    files,          \* os.listdir of the one existing directory
    op,             \* the handler that ran last
    input,          \* what the environment gave that handler
    notices,        \* the messagebox calls of that handler, in order
    requests,       \* the requests.get calls of that handler, in order
    destroyed,      \* the item widgets clear_images destroyed in that handler
    calls,          \* the _unique_filename calls of that handler, in order
    claimed_names,  \* existing_files of save_selected as that handler left it
    writes,         \* the open(full_path, "wb") calls of that handler, in order
    raised          \* that handler ended by an uncaught exception

vars == <<images, files, op, input, notices, requests, destroyed, calls,
          claimed_names, writes, raised>>

-----------------------------------------------------------------------------
\* Strings

Chars(s) == {s[i] : i \in 1..Len(s)}

RECURSIVE lstrip(_)
lstrip(s) == IF s # <<>> /\ Head(s) = " " THEN lstrip(Tail(s)) ELSE s

RECURSIVE rstrip(_)
rstrip(s) ==
    IF s # <<>> /\ s[Len(s)] = " " THEN rstrip(SubSeq(s, 1, Len(s) - 1)) ELSE s

\* str.strip()
strip(s) == rstrip(lstrip(s))

\* str.rfind(c) + 1: the last position of c in s, 0 when there is none
rfind(s, c) ==
    LET at == {i \in 1..Len(s) : s[i] = c}
    IN  IF at = {} THEN 0 ELSE CHOOSE i \in at : \A j \in at : j <= i

\* str.find(c) + 1
find(s, c) ==
    LET at == {i \in 1..Len(s) : s[i] = c}
    IN  IF at = {} THEN 0 ELSE CHOOSE i \in at : \A j \in at : i <= j

\* str(i) for i >= 0
RECURSIVE str(_)
str(i) ==
    LET d == <<"0", "1", "2", "3", "4", "5", "6", "7", "8", "9">>
    IN  IF i < 10 THEN <<d[i + 1]>> ELSE str(i \div 10) \o <<d[(i % 10) + 1]>>

\* os.path.basename
basename(p) == SubSeq(p, rfind(p, "/") + 1, Len(p))

\* os.path.splitext: the extension starts at the last dot, unless only dots
\* lie between the last separator and it
splitext(p) ==
    LET sep == rfind(p, "/")
        dot == rfind(p, ".")
    IN  IF dot > sep /\ \E j \in (sep + 1)..(dot - 1) : p[j] # "."
        THEN <<SubSeq(p, 1, dot - 1), SubSeq(p, dot, Len(p))>>
        ELSE <<p, <<>>>>

-----------------------------------------------------------------------------
\* The environment: what can be typed, what a page holds, what a server answers

HTTP == "http://"
HTTPS == "https://"

\* Texts of the URL entry
Urls == {<<>>, <<" ">>, <<" ", "x">>}

\* Texts of the save path entry; <<"d">> is the one existing directory
Paths == {<<>>, <<" ">>, <<"d">>, <<"n">>}

isdir(p) == p = <<"d">>

\* An <img> tag: whether it has a src attribute, the attribute, and what
\* the server answers for it (ok, neterr: the GET fails or has an error
\* status, badimg: the payload does not decode)
Tag(has, src, net) == [has_src |-> has, src |-> src, net |-> net]

Tags == {
    Tag(FALSE, <<>>, "neterr"),
    Tag(TRUE, <<"a", ".", "j", "p", "g">>, "ok"),
    Tag(TRUE, <<"d", "/", "a">>, "ok"),
    Tag(TRUE, <<"x">>, "neterr"),
    Tag(TRUE, <<"y">>, "badimg"),
    Tag(TRUE, <<"/", "/", "[">>, "neterr") }

Pages == UNION {[1..n -> Tags] : n \in 0..MaxTags}

\* Names the save directory may hold at start
InitialListings ==
    SUBSET {<<"a", ".", "j", "p", "g">>, <<"a", "_", "1", ".", "j", "p", "g">>}

Notice(kind, text, n) == [kind |-> kind, text |-> text, n |-> n]

-----------------------------------------------------------------------------
\* Core logic

\* clear_images with self.images.clear() left out
clear_images_list_keeps(imgs, silent) ==
    [images    |-> imgs,
     destroyed |-> Len(imgs),
     notices   |-> IF silent THEN <<>> ELSE <<Notice("info", "cleared", 0)>>]

\* clear_images showing its notice whatever silent is
clear_images_list_loud(imgs, silent) ==
    [images    |-> <<>>,
     destroyed |-> Len(imgs),
     notices   |-> <<Notice("info", "cleared", 0)>>]

\* clear_images: the widgets are destroyed and the list is emptied; the
\* notice is shown unless silent
clear_images_list(imgs, silent) ==
    [images    |-> <<>>,
     destroyed |-> Len(imgs),
     notices   |-> IF silent THEN <<>> ELSE <<Notice("info", "cleared", 0)>>]

startswith(s, prefix) == s # <<>> /\ Head(s) = prefix

\* urlsplit's check of the network location of a reference "//netloc/...":
\* an unbalanced bracket raises ValueError("Invalid IPv6 URL")
urljoin_raises(src) ==
    /\ Len(src) >= 2 /\ src[1] = "/" /\ src[2] = "/"
    /\ LET rest   == SubSeq(src, 3, Len(src))
           stop   == find(rest, "/")
           netloc == IF stop = 0 THEN rest ELSE SubSeq(rest, 1, stop - 1)
       IN  ("[" \in Chars(netloc)) # ("]" \in Chars(netloc))

\* urljoin(url, src) of a reference that does not raise: the page it was
\* found on and the path it names
urljoin(url, src) == [page |-> url, path |-> src]

\* The filename suggestion of _download_and_add_image
suggested_filename(image_url) ==
    LET name   == basename(image_url.path)
        named  == IF name = <<>> THEN <<"i", "m", "a", "g", "e">> ELSE name
    IN  IF "." \notin Chars(named) THEN named \o <<".", "j", "p", "g">> ELSE named

\* The item _download_and_add_image appends
new_item(image_url) ==
    [url |-> image_url, selected |-> TRUE, filename |-> suggested_filename(image_url)]

\* _download_and_add_image: the GET, then the thumbnail, then the append.
\* net is the server's answer for image_url.
download_and_add_image(image_url, net, imgs) ==
    IF net = "neterr" THEN [ok |-> FALSE, images |-> imgs]
    ELSE IF net = "badimg" THEN [ok |-> FALSE, images |-> imgs]
    ELSE [ok |-> TRUE, images |-> Append(imgs, new_item(image_url))]

\* found_count += 1 of scan_images
count_found(found_count) == found_count + 1

\* The loop of scan_images over img_tags, from tag k on. acc holds
\* self.images, the GETs issued, found_count and whether urljoin raised.
RECURSIVE scan_loop(_, _, _, _)
scan_loop(img_tags, k, url, acc) ==
    IF k > Len(img_tags) THEN acc
    ELSE LET img == img_tags[k]
         IN  IF ~img.has_src \/ img.src = <<>>
             THEN scan_loop(img_tags, k + 1, url, acc)
             ELSE IF urljoin_raises(img.src)
             THEN [acc EXCEPT !.raised = TRUE]
             ELSE LET img_url == urljoin(url, img.src)
                      r == download_and_add_image(img_url, img.net, acc.images)
                  IN  scan_loop(img_tags, k + 1, url,
                          [images      |-> r.images,
                           requests    |-> Append(acc.requests, img_url),
                           found_count |-> IF r.ok THEN count_found(acc.found_count)
                                           ELSE acc.found_count,
                           raised      |-> FALSE])

\* The notice that ends scan_images after the loop
scan_summary(found_count) ==
    IF found_count = 0 THEN Notice("info", "none_downloaded", 0)
    ELSE Notice("info", "found", found_count)

\* The URL read without .strip()
scan_url_unstripped(url_text) == url_text

\* url = self.url_var.get().strip()
scan_url(url_text) == strip(url_text)

\* What scan_images does once the URL is known to be non-empty: normalise,
\* clear, fetch the page, walk the tags, report.
scan_page(imgs, url0, fetch, page) ==
    LET url     == IF startswith(url0, HTTP) \/ startswith(url0, HTTPS)
                   THEN url0 ELSE <<HTTP>> \o url0
        cleared == clear_images_list(imgs, TRUE)
        get     == <<[page |-> url, path |-> <<>>]>>
    IN  IF fetch = "fail"
        THEN [images |-> cleared.images, destroyed |-> cleared.destroyed, requests |-> get,
              notices |-> cleared.notices \o <<Notice("error", "load_failed", 0)>>,
              raised |-> FALSE]
        ELSE IF page = <<>>
        THEN [images |-> cleared.images, destroyed |-> cleared.destroyed, requests |-> get,
              notices |-> cleared.notices \o <<Notice("info", "no_img_tags", 0)>>,
              raised |-> FALSE]
        ELSE LET r == scan_loop(page, 1, url,
                          [images |-> cleared.images, requests |-> get,
                           found_count |-> 0, raised |-> FALSE])
             IN  [images |-> r.images, destroyed |-> cleared.destroyed,
                  requests |-> r.requests,
                  notices |-> IF r.raised THEN cleared.notices
                              ELSE cleared.notices \o <<scan_summary(r.found_count)>>,
                  raised |-> r.raised]

\* The pages a GET of the page can give: none when it fails
pages_of(fetch) == IF fetch = "fail" THEN {<<>>} ELSE Pages

\* scan_images: the "Scan Images" button. url_text is the text of the URL
\* entry, fetch the outcome of the GET of the page, page its <img> tags.
scan_images ==
    /\ op' = "scan_images"
    /\ calls' = <<>> /\ claimed_names' = {} /\ writes' = <<>>
    /\ UNCHANGED files
    /\ \E url_text \in Urls :
        \E url \in {scan_url(url_text)} :
            IF url = <<>>
            THEN /\ input' = [url |-> url_text, fetch |-> "none", page |-> <<>>]
                 /\ notices' = <<Notice("warning", "input_url", 0)>>
                 /\ requests' = <<>>
                 /\ raised' = FALSE
                 /\ destroyed' = 0
                 /\ UNCHANGED images
            ELSE \E fetch \in {"ok", "fail"} :
                    \E page \in pages_of(fetch) :
                        \E r \in {scan_page(images, url, fetch, page)} :
                            /\ input' = [url |-> url_text, fetch |-> fetch, page |-> page]
                            /\ images' = r.images
                            /\ notices' = r.notices
                            /\ requests' = r.requests
                            /\ raised' = r.raised
                            /\ destroyed' = r.destroyed

-----------------------------------------------------------------------------
\* Selection helpers

\* A handler that shows no notice, issues no request, clears nothing and
\* opens no file
no_log ==
    /\ notices' = <<>> /\ requests' = <<>> /\ destroyed' = 0
    /\ calls' = <<>> /\ claimed_names' = {} /\ writes' = <<>> /\ raised' = FALSE

set_all(imgs, value) == [i \in 1..Len(imgs) |-> [imgs[i] EXCEPT !.selected = value]]

\* select_all flipping each flag instead of setting it
select_all_inverts(imgs) ==
    [i \in 1..Len(imgs) |-> [imgs[i] EXCEPT !.selected = ~imgs[i].selected]]

select_all_items(imgs) == set_all(imgs, TRUE)

unselect_all_items(imgs) == set_all(imgs, FALSE)

select_all ==
    /\ images' = select_all_items(images)
    /\ op' = "select_all"
    /\ input' = <<>>
    /\ no_log
    /\ UNCHANGED files

unselect_all ==
    /\ images' = unselect_all_items(images)
    /\ op' = "unselect_all"
    /\ input' = <<>>
    /\ no_log
    /\ UNCHANGED files

\* The Checkbutton of item i flips its selected_var
toggle ==
    \E i \in 1..Len(images) :
        /\ images' = [images EXCEPT ![i].selected = ~images[i].selected]
        /\ op' = "toggle"
        /\ input' = <<>>
        /\ no_log
        /\ UNCHANGED files

-----------------------------------------------------------------------------
\* Save to disk

\* The while loop with the counter put after the extension
RECURSIVE unique_loop_after_ext(_, _, _, _, _)
unique_loop_after_ext(base, ext, candidate, i, existing_files) ==
    IF candidate \in existing_files
    THEN unique_loop_after_ext(base, ext, base \o ext \o <<"_">> \o str(i), i + 1,
                               existing_files)
    ELSE candidate

\* The while loop of _unique_filename
RECURSIVE unique_loop(_, _, _, _, _)
unique_loop(base, ext, candidate, i, existing_files) ==
    IF candidate \in existing_files
    THEN unique_loop(base, ext, base \o <<"_">> \o str(i) \o ext, i + 1, existing_files)
    ELSE candidate

\* _unique_filename with existing_files.add(candidate) left out
claim_name_forgets(existing_files, candidate) == existing_files

\* existing_files.add(candidate) of _unique_filename
claim_name(existing_files, candidate) == existing_files \cup {candidate}

\* _unique_filename: the name it returns and existing_files as it leaves it
unique_filename(filename, existing_files) ==
    LET parts     == splitext(filename)
        candidate == unique_loop(parts[1], parts[2], filename, 1, existing_files)
    IN  [name |-> candidate, existing_files |-> claim_name(existing_files, candidate)]

\* saved_count incremented before the write instead of after it
count_saved_always(saved_count, ok) == saved_count + 1

\* saved_count after the write of one item
count_saved(saved_count, ok) == IF ok THEN saved_count + 1 ELSE saved_count

\* The loop of save_selected over selected_items, from item k on. wr[k]
\* tells whether the write of item k succeeds. acc holds existing_files,
\* the directory, the calls and writes made and saved_count.
RECURSIVE save_loop(_, _, _, _)
save_loop(selected_items, k, wr, acc) ==
    IF k > Len(selected_items) THEN acc
    ELSE LET item == selected_items[k]
             u    == unique_filename(item.filename, acc.existing_files)
         IN  save_loop(selected_items, k + 1, wr,
                 [existing_files |-> u.existing_files,
                  files          |-> IF wr[k] THEN acc.files \cup {u.name} ELSE acc.files,
                  calls          |-> Append(acc.calls,
                                        [filename       |-> item.filename,
                                         existing_files |-> acc.existing_files,
                                         result         |-> u.name]),
                  writes         |-> Append(acc.writes,
                                        [item |-> item, name |-> u.name, ok |-> wr[k]]),
                  saved_count    |-> count_saved(acc.saved_count, wr[k])])

\* existing_files = set(os.listdir(target_dir))
listing(dir_files) == dir_files

\* selected_items of save_selected
selected_of(imgs) == SelectSeq(imgs, LAMBDA img : img.selected)

\* The check of the save path in save_selected
invalid_save_path(target_dir) == target_dir = <<>> \/ ~isdir(target_dir)

\* save_selected with the check of the save path left out
save_refusal_unchecked_dir(imgs, path) ==
    IF imgs = <<>> THEN "no_images_loaded"
    ELSE IF selected_of(imgs) = <<>> THEN "no_images_selected"
    ELSE "none"

\* The early returns of save_selected, in the order the code makes them:
\* the warning shown, or "none" when the save goes ahead
save_refusal(imgs, path) ==
    IF imgs = <<>> THEN "no_images_loaded"
    ELSE IF invalid_save_path(strip(path)) THEN "invalid_save_path"
    ELSE IF selected_of(imgs) = <<>> THEN "no_images_selected"
    ELSE "none"

\* save_selected: the "Save Selected" button. path is the text of the save
\* path entry, wr[k] whether the write of the k-th selected item succeeds.
save_selected ==
    \E path \in Paths :
    LET refusal        == save_refusal(images, path)
        selected_items == IF refusal = "none" THEN selected_of(images) ELSE <<>>
    IN  \E wr \in [1..Len(selected_items) -> BOOLEAN] :
            /\ Cardinality(files) + Len(selected_items) <= MaxFiles
            /\ op' = "save_selected"
            /\ input' = [path |-> path, wr |-> wr]
            /\ requests' = <<>>
            /\ destroyed' = 0
            /\ raised' = FALSE
            /\ UNCHANGED images
            /\ IF refusal # "none"
               THEN /\ notices' = <<Notice("warning", refusal, 0)>>
                    /\ calls' = <<>> /\ claimed_names' = {} /\ writes' = <<>>
                    /\ UNCHANGED files
               ELSE \E r \in {save_loop(selected_items, 1, wr,
                                  [existing_files |-> listing(files), files |-> files,
                                   calls |-> <<>>, writes |-> <<>>, saved_count |-> 0])} :
                        /\ files' = r.files
                        /\ calls' = r.calls
                        /\ claimed_names' = r.existing_files
                        /\ writes' = r.writes
                        /\ notices' = <<Notice("info", "saved", r.saved_count)>>

-----------------------------------------------------------------------------
\* Clear cache / UI

clear_images ==
    \E silent \in BOOLEAN :
        \E r \in {clear_images_list(images, silent)} :
            /\ images' = r.images
            /\ notices' = r.notices
            /\ destroyed' = r.destroyed
            /\ op' = "clear_images"
            /\ input' = [silent |-> silent]
            /\ requests' = <<>> /\ raised' = FALSE
            /\ calls' = <<>> /\ claimed_names' = {} /\ writes' = <<>>
            /\ UNCHANGED files

-----------------------------------------------------------------------------
Init ==
    /\ images = <<>>
    /\ files \in InitialListings
    /\ op = "init"
    /\ input = <<>>
    /\ notices = <<>>
    /\ requests = <<>>
    /\ destroyed = 0
    /\ calls = <<>>
    /\ claimed_names = {}
    /\ writes = <<>>
    /\ raised = FALSE

Next ==
    \/ scan_images
    \/ select_all
    \/ unselect_all
    \/ toggle
    \/ save_selected
    \/ clear_images

Spec == Init /\ [][Next]_vars

-----------------------------------------------------------------------------
\* _unique_filename on its own: any suggested filename against any set of
\* claimed names, and again on the set it leaves

JPG == <<".", "j", "p", "g">>

\* a_<digit>.jpg
Numbered(digit) == <<"a", "_", digit>> \o JPG

\* The filenames suggested for these references
Filenames ==
    {suggested_filename(urljoin(<<HTTP, "x">>, src)) :
        src \in {<<"a">> \o JPG, <<"d", "/">>, <<"d", "/", ".", "a">>,
                 <<"b", ".", "t", ".", "g">>}}

\* a.jpg and a_1.jpg .. a_9.jpg
NineTaken == {<<"a">> \o JPG} \cup
             {Numbered(d) : d \in {"1", "2", "3", "4", "5", "6", "7", "8", "9"}}

ClaimedSets ==
    (SUBSET {<<"a">> \o JPG, Numbered("1"), Numbered("2"),
             <<".", "a">>, <<".", "a", "_", "1">>,
             <<"b", ".", "t", ".", "g">>, <<"b", ".", "t", "_", "1", ".", "g">>,
             <<"i", "m", "a", "g", "e">> \o JPG})
    \cup {NineTaken}

InitUnique ==
    /\ images = <<>>
    /\ files = {}
    /\ op = "init"
    /\ input = <<>>
    /\ notices = <<>>
    /\ requests = <<>>
    /\ destroyed = 0
    /\ calls = <<>>
    /\ claimed_names \in ClaimedSets
    /\ writes = <<>>
    /\ raised = FALSE

unique_filename_call ==
    \E filename \in Filenames :
        \E u \in {unique_filename(filename, claimed_names)} :
            /\ Len(calls) < MaxCalls
            /\ calls' = Append(calls, [filename       |-> filename,
                                       existing_files |-> claimed_names,
                                       result         |-> u.name])
            /\ claimed_names' = u.existing_files
            /\ op' = "_unique_filename"
            /\ UNCHANGED <<images, files, input, notices, requests, destroyed,
                           writes, raised>>

NextUnique == unique_filename_call

SpecUnique == InitUnique /\ [][NextUnique]_vars

-----------------------------------------------------------------------------
\* Properties

\* C1: in one save_selected, the name chosen for every selected item is
\* the one _unique_filename returned, is not in the directory's listing at
\* the start of the save and differs from the name chosen for every earlier
\* item, whether that item's write succeeded or failed; no file of the
\* listing is removed.
C1_CollisionFree ==
    [][op' = "save_selected" =>
         /\ Len(calls') = Len(writes')
         /\ files \subseteq files'
         /\ \A i \in DOMAIN writes' :
              /\ writes'[i].name = calls'[i].result
              /\ writes'[i].name \notin files
              /\ \A j \in 1..(i - 1) : writes'[j].name # writes'[i].name]_vars

\* C1 witness: a save in which an item whose write failed and a later item
\* had the same suggested filename, itself already in the directory.
C1_Witness ==
    /\ op = "save_selected"
    /\ \E i, j \in DOMAIN writes :
         /\ i < j
         /\ writes[i].item.filename = writes[j].item.filename
         /\ writes[i].item.filename \in calls[1].existing_files
         /\ ~writes[i].ok
         /\ writes[j].ok

\* base_k + ext as the claim names it
Suffixed(base, k, ext) == base \o <<"_">> \o str(k) \o ext

\* C2: _unique_filename returns the suggested filename f = base + ext when
\* f is not claimed, and otherwise base_k + ext for the smallest k >= 1
\* whose name is not claimed; with {a.jpg} claimed, a.jpg suggested twice
\* resolves to a_1.jpg and then to a_2.jpg.
C2_SmallestSuffix ==
    /\ \A n \in DOMAIN calls :
         LET f    == calls[n].filename
             C    == calls[n].existing_files
             base == splitext(f)[1]
             ext  == splitext(f)[2]
         IN  /\ base \o ext = f
             /\ IF f \notin C THEN calls[n].result = f
                ELSE \E k \in 1..(Cardinality(C) + 1) :
                        /\ calls[n].result = Suffixed(base, k, ext)
                        /\ Suffixed(base, k, ext) \notin C
                        /\ \A j \in 1..(k - 1) : Suffixed(base, j, ext) \in C
    /\ ( /\ Len(calls) >= 2
         /\ calls[1].existing_files = {<<"a", ".", "j", "p", "g">>}
         /\ calls[1].filename = <<"a", ".", "j", "p", "g">>
         /\ calls[2].filename = <<"a", ".", "j", "p", "g">> )
       => /\ calls[1].result = <<"a", "_", "1", ".", "j", "p", "g">>
          /\ calls[2].result = <<"a", "_", "2", ".", "j", "p", "g">>

\* C2 witness: the example of the claim, two calls for a.jpg on {a.jpg}.
C2_Witness ==
    /\ Len(calls) = 2
    /\ calls[1].existing_files = {<<"a", ".", "j", "p", "g">>}
    /\ calls[1].filename = <<"a", ".", "j", "p", "g">>
    /\ calls[2].filename = <<"a", ".", "j", "p", "g">>
    /\ calls[2].result = <<"a", "_", "2", ".", "j", "p", "g">>

\* The references of a page that have a non-empty source
References(page) == SelectSeq(page, LAMBDA t : t.has_src /\ t.src # <<>>)

\* C3: after a scan with a non-empty URL whose page fetch succeeded, the
\* registry holds exactly the references with a non-empty source whose
\* download and decode succeed, in order, each selected: a reference that
\* fails takes away only itself, and nothing is left of an earlier scan.
C3_RegistryIsThisScan ==
    (op = "scan_images" /\ input.fetch = "ok") =>
        LET refs == References(input.page)
            good == SelectSeq(refs, LAMBDA t : t.net = "ok")
        IN  /\ Len(images) = Len(good)
            /\ Len(images) <= Len(refs)
            /\ \A i \in DOMAIN good :
                 /\ images[i].url = [requests[1] EXCEPT !.path = good[i].src]
                 /\ images[i].selected

\* C4: a scan whose page fetch fails ends with the registry empty, one
\* error notice and no request but the one for the page.
C4_FetchFailure ==
    (op = "scan_images" /\ input.fetch = "fail") =>
        /\ images = <<>>
        /\ notices = <<Notice("error", "load_failed", 0)>>
        /\ Len(requests) = 1
        /\ requests[1].path = <<>>
        /\ ~raised

\* C4 witness: a failed page fetch on a registry that held items.
C4_Witness ==
    /\ op = "scan_images"
    /\ input.fetch = "fail"
    /\ destroyed > 0

\* The urls and filenames of the registry, in order
Identities(imgs) == [i \in 1..Len(imgs) |-> [url |-> imgs[i].url, filename |-> imgs[i].filename]]

\* C5: select_all leaves every item selected and unselect_all leaves every
\* item unselected, whatever the flags were, and neither adds, removes or
\* reorders items.
C5_SelectAllUnselectAll ==
    [][/\ op' = "select_all" =>
            /\ \A i \in DOMAIN images' : images'[i].selected
            /\ Identities(images') = Identities(images)
       /\ op' = "unselect_all" =>
            /\ \A i \in DOMAIN images' : ~images'[i].selected
            /\ Identities(images') = Identities(images)]_vars

\* C5 witness: select_all has run on a registry of several items.
C5_Witness ==
    /\ op = "select_all"
    /\ Len(images) >= 2
    /\ \A i \in DOMAIN images : images[i].selected

\* C6: save_selected with no item selected, or with a save path that is
\* empty or no existing directory, shows one warning, opens no file and
\* leaves the directory and the registry as they were.
C6_SaveRefused ==
    [][( /\ op' = "save_selected"
         /\ \/ \A i \in DOMAIN images : ~images[i].selected
            \/ strip(input'.path) = <<>>
            \/ ~isdir(strip(input'.path)) )
       => /\ Len(notices') = 1
          /\ notices'[1].kind = "warning"
          /\ writes' = <<>>
          /\ calls' = <<>>
          /\ files' = files
          /\ images' = images]_vars

\* C6 witness: a save refused on a loaded registry with nothing selected
\* and a valid directory.
C6_Witness ==
    /\ op = "save_selected"
    /\ images # <<>>
    /\ \A i \in DOMAIN images : ~images[i].selected
    /\ isdir(strip(input.path))
    /\ notices = <<Notice("warning", "no_images_selected", 0)>>

\* C7: a save that goes ahead attempts a write for every selected item in
\* registry order, failed writes included, and reports the number of
\* writes that succeeded.
C7_WriteFailureSkips ==
    ( /\ op = "save_selected"
      /\ \E i \in DOMAIN images : images[i].selected
      /\ isdir(strip(input.path)) )
    => /\ [i \in 1..Len(writes) |-> writes[i].item] = SelectSeq(images, LAMBDA m : m.selected)
       /\ notices = <<Notice("info", "saved",
                             Cardinality({i \in DOMAIN writes : writes[i].ok}))>>
       /\ \A i \in DOMAIN writes : writes[i].ok => writes[i].name \in files

\* C7 witness: a save whose first write failed and whose second succeeded.
C7_Witness ==
    /\ op = "save_selected"
    /\ Len(writes) = 2
    /\ ~writes[1].ok
    /\ writes[2].ok
    /\ notices[1].n = 1

\* What a clear_images step leaves
Cleared ==
    /\ images = <<>>
    /\ ~raised
    /\ notices = IF input.silent THEN <<>> ELSE <<Notice("info", "cleared", 0)>>

\* C8: every clear_images leaves the registry empty without an error, the
\* silent one with no notice and the other with one; so does a clear that
\* follows a clear, which finds nothing to destroy; the clear inside a scan
\* shows no notice.
C8_ClearIdempotent ==
    /\ [](op = "clear_images" => Cleared)
    /\ [](op = "scan_images" => \A i \in DOMAIN notices : notices[i].text # "cleared")
    /\ [][(op = "clear_images" /\ op' = "clear_images") =>
            (images' = <<>> /\ destroyed' = 0 /\ ~raised')]_vars

\* C8 witness: a user-invoked clear of a registry that was already empty.
C8_Witness ==
    /\ op = "clear_images"
    /\ ~input.silent
    /\ destroyed = 0
    /\ images = <<>>
    /\ notices = <<Notice("info", "cleared", 0)>>

\* C9: every scan with a non-empty URL ends with exactly one notice: the
\* error when the page fetch failed, "no image tags" when the page has no
\* tag, else "none downloadable" when the registry ends empty and else the
\* number found, which is the number of registry entries.
C9_OneNotice ==
    (op = "scan_images" /\ input.fetch # "none") =>
        notices = << IF input.fetch = "fail" THEN Notice("error", "load_failed", 0)
                     ELSE IF input.page = <<>> THEN Notice("info", "no_img_tags", 0)
                     ELSE IF images = <<>> THEN Notice("info", "none_downloaded", 0)
                     ELSE Notice("info", "found", Len(images)) >>

\* C10: a scan with an empty or whitespace-only URL shows one warning,
\* makes no request and leaves the registry and the directory as they were.
C10_BlankUrl ==
    [][(op' = "scan_images" /\ strip(input'.url) = <<>>) =>
         /\ notices' = <<Notice("warning", "input_url", 0)>>
         /\ requests' = <<>>
         /\ destroyed' = 0
         /\ ~raised'
         /\ images' = images
         /\ files' = files]_vars

\* C10 witness: a scan with a whitespace-only URL on a registry that holds
\* items.
C10_Witness ==
    /\ op = "scan_images"
    /\ input.url = <<" ">>
    /\ images # <<>>
    /\ requests = <<>>
====
